---- MODULE Spec2Model ----
(***************************************************************************)
(* Camera session manager (composables/useCamera) and analysis dispatcher  *)
(* (components/analysis/CameraPreview.vue, composables/useGemini,          *)
(* pages/index.vue) as state machines.                                     *)
(*                                                                         *)
(* JavaScript runs one task at a time: every action below is one           *)
(* run-to-completion step, i.e. a call up to its first await, or the       *)
(* continuation that runs when an awaited promise settles, a timer fires   *)
(* or an event is delivered.                                               *)
(***************************************************************************)
EXTENDS Integers, Sequences, FiniteSets, TLC

\* ------------------------------------------------------------------ bounds
\* calls of the methods of useCamera, and mounts and unmounts of the video
\* element, in one run of the camera model
MaxCalls == 3

\* --------------------------------------------------------------- constants
NoStream == 0
NoError == "null"
ErrUnsupported == "Perangkat tidak mendukung akses kamera."
ErrDenied == "Permission denied"
ErrNoVideo == "Video element tidak ditemukan."
ErrPlay == "Gagal memutar video: play() failed"
ErrTrackEnded == "Kamera tidak lagi tersedia."
ErrResume == "Gagal melanjutkan video"
Facing == {"user", "environment"}
\* lengths of the device list that the code tells apart: empty, one, several
DeviceCounts == {0, 1, 2}
\* enumerateDevices() rejecting
EnumFails == -1

VARIABLES
  \* refs and closure state of useCamera
  videoRef,          \* TRUE iff videoRef.value is an element
  cameraError,
  isStreamReady,
  isInitializing,
  isPaused,
  currentFacingMode,
  availableDevices,  \* length of availableDevices.value (a DeviceCounts)
  mediaStream,       \* NoStream or the id of the stream held
  \* the browser
  mediaDevices,      \* TRUE iff navigator.mediaDevices exists
  reqCount,          \* getUserMedia requests issued so far
  gumPending,        \* the unsettled getUserMedia requests: [id, facing]
  heldFacing,        \* facing mode the held stream was requested with
  openStreams,       \* streams whose tracks are live
  listening,         \* streams whose tracks carry the 'ended' listener
  srcObject,         \* stream bound to the current video element
  metaPending,       \* streams whose loadedmetadata event is yet to fire
  playPending,       \* unsettled play() promises of onloadedmetadata
  resumePending,     \* unsettled play() promises of resumeCamera
  enumPending,       \* unsettled enumerateDevices() of initCamera
  switchEnum,        \* switchCamera calls awaiting getAvailableDevices
  restartTimers,     \* restartCamera calls in their 300 ms delay
  \* bookkeeping of the model
  calls,             \* calls made so far (at most MaxCalls)
  hist,              \* the last call: what, from where, what it returned
  \* CameraPreview.vue and useGemini
  selectedAnalysisItems,  \* the selected category labels, in selection order
  apiKey,            \* TRUE iff a Gemini API key is configured
  isAnalyzing,
  geminiError,       \* error.value of useGemini
  lastResult,        \* lastResult.value of useGemini
  batches,           \* the handleAnalyzeImage calls that fanned out
  emitted,           \* every signal emitted so far, in order
  sent,              \* generateContent requests sent so far
  dcalls,            \* handleAnalyzeImage calls made so far
  dhist,             \* the last handleAnalyzeImage call
  \* pages/index.vue
  analysisResults,
  analysisError,
  processingItems,
  now,               \* the clock (Date), in ms
  \* prompt derivation on its own
  pIn,               \* labels handed to generateSinglePrompt
  pOut,              \* the prompts it returned for them
  \* the lifecycle of CameraPreview.vue
  lifecycle,         \* "setup", "mounted" or "unmounted"
  retryPhase,        \* where initializeWithRetry stands
  retryCount,        \* the retryCount of its latest attempt
  watchTimers        \* pending timers of watch(videoRef)

camVars == <<videoRef, cameraError, isStreamReady, isInitializing, isPaused,
             currentFacingMode, availableDevices, mediaStream>>
envVars == <<mediaDevices, reqCount, gumPending, heldFacing, openStreams,
             listening, srcObject, metaPending, playPending, resumePending,
             enumPending, switchEnum, restartTimers>>
geminiVars == <<isAnalyzing, geminiError, lastResult>>
pageVars == <<analysisResults, analysisError, processingItems>>
dispVars == <<selectedAnalysisItems, apiKey, geminiVars, batches, emitted, sent,
              dcalls, dhist, pageVars, now>>
promptVars == <<pIn, pOut>>
compVars == <<lifecycle, retryPhase, retryCount, watchTimers>>
vars == <<camVars, envVars, calls, hist, dispVars, promptVars, compVars>>

\* The session state of the specification's data model, read off the refs.
SessionState ==
  IF cameraError # NoError THEN "error"
  ELSE IF isInitializing THEN "initializing"
  ELSE IF isStreamReady /\ isPaused THEN "paused"
  ELSE IF isStreamReady THEN "ready"
  ELSE "idle"

NoHist == [op |-> "-", pre |-> "-", stream |-> NoStream, reqs |-> 0, ret |-> "-"]

\* a call of a method: counted, and remembered with the state it started from
Call(name, ret) ==
  /\ calls < MaxCalls
  /\ calls' = calls + 1
  /\ hist' = [op |-> name, pre |-> SessionState, stream |-> mediaStream,
              reqs |-> reqCount, ret |-> ret]
  /\ UNCHANGED <<dispVars, promptVars, compVars>>

\* a step that is no call: a promise settles, a timer or an event fires
Async ==
  /\ calls' = calls
  /\ hist' = NoHist
  /\ UNCHANGED <<dispVars, promptVars, compVars>>

\* ------------------------------------------------------------ useCamera
isCameraSupported == mediaDevices

\* cleanupStream(), run with mediaStream = ms, live streams open, listeners lis
cleanupStream(ms, open, lis) ==
  /\ openStreams' = open \ {ms}
  /\ listening' = lis \ {ms}
  /\ mediaStream' = NoStream
  /\ heldFacing' = "none"
  /\ IF videoRef
       THEN /\ srcObject' = NoStream
            /\ metaPending' = metaPending \ {srcObject}
       ELSE UNCHANGED <<srcObject, metaPending>>

\* what cleanupStream() writes
streamVars == <<mediaStream, heldFacing, openStreams, listening, srcObject,
                metaPending>>

\* a handleTrackEnded() that reports the error and keeps the stream
handleTrackEnded_keepsStream(s) ==
  /\ cameraError' = ErrTrackEnded
  /\ isStreamReady' = FALSE
  /\ openStreams' = openStreams \ {s}
  /\ UNCHANGED <<mediaStream, heldFacing, listening, srcObject, metaPending>>

\* handleTrackEnded(), a track of stream s having ended
handleTrackEnded(s) ==
  /\ cameraError' = ErrTrackEnded
  /\ isStreamReady' = FALSE
  /\ cleanupStream(mediaStream, openStreams \ {s}, listening)

\* what initCamera() writes before its first await
initWrites == <<cameraError, isStreamReady, isInitializing, isPaused, reqCount,
                gumPending, streamVars>>

\* an initCamera() whose guard overlooks a stream already held
initCamera_overlooksStream ==
  IF isInitializing \/ ~videoRef
    THEN UNCHANGED initWrites
    ELSE /\ isStreamReady' = FALSE
         /\ isPaused' = FALSE
         /\ IF ~isCameraSupported
              THEN /\ cameraError' = ErrUnsupported
                   /\ isInitializing' = FALSE
                   /\ cleanupStream(mediaStream, openStreams, listening)
                   /\ UNCHANGED <<reqCount, gumPending>>
              ELSE /\ cameraError' = NoError
                   /\ isInitializing' = TRUE
                   /\ reqCount' = reqCount + 1
                   /\ gumPending' = gumPending \cup
                        {[id |-> reqCount + 1, facing |-> currentFacingMode]}
                   /\ UNCHANGED streamVars

\* initCamera() up to its first await (the getUserMedia request)
initCamera ==
  IF isInitializing \/ mediaStream # NoStream \/ ~videoRef
    THEN UNCHANGED initWrites
    ELSE /\ isStreamReady' = FALSE
         /\ isPaused' = FALSE
         /\ IF ~isCameraSupported
              THEN /\ cameraError' = ErrUnsupported
                   /\ isInitializing' = FALSE
                   /\ cleanupStream(mediaStream, openStreams, listening)
                   /\ UNCHANGED <<reqCount, gumPending>>
              ELSE /\ cameraError' = NoError
                   /\ isInitializing' = TRUE
                   /\ reqCount' = reqCount + 1
                   /\ gumPending' = gumPending \cup
                        {[id |-> reqCount + 1, facing |-> currentFacingMode]}
                   /\ UNCHANGED streamVars

CallInitCamera ==
  /\ initCamera
  /\ UNCHANGED <<videoRef, currentFacingMode, availableDevices, mediaDevices,
                 playPending, resumePending, enumPending, switchEnum,
                 restartTimers>>
  /\ Call("initCamera", "-")

\* getUserMedia resolves request r with a new stream; initCamera continues to
\* its next await (getAvailableDevices) or throws because the element is gone
GumResolve(r) ==
  /\ r \in gumPending
  /\ gumPending' = gumPending \ {r}
  /\ UNCHANGED <<isStreamReady, isPaused, currentFacingMode, availableDevices,
                 videoRef, mediaDevices, reqCount, playPending, resumePending,
                 switchEnum, restartTimers>>
  /\ IF ~videoRef
       THEN /\ cameraError' = ErrNoVideo
            /\ isInitializing' = FALSE
            /\ cleanupStream(r.id, openStreams \cup {r.id}, listening \cup {r.id})
            /\ UNCHANGED enumPending
       ELSE /\ mediaStream' = r.id
            /\ heldFacing' = r.facing
            /\ openStreams' = openStreams \cup {r.id}
            /\ listening' = listening \cup {r.id}
            /\ srcObject' = r.id
            /\ metaPending' = (metaPending \ {srcObject}) \cup {r.id}
            /\ enumPending' = IF mediaDevices THEN enumPending + 1 ELSE enumPending
            /\ UNCHANGED <<cameraError, isInitializing>>
  /\ Async

\* getUserMedia rejects request r: the catch block of initCamera
GumReject(r) ==
  /\ r \in gumPending
  /\ gumPending' = gumPending \ {r}
  /\ cameraError' = ErrDenied
  /\ isInitializing' = FALSE
  /\ cleanupStream(mediaStream, openStreams, listening)
  /\ UNCHANGED <<isStreamReady, isPaused, currentFacingMode, availableDevices,
                 videoRef, mediaDevices, reqCount, playPending, resumePending,
                 enumPending, switchEnum, restartTimers>>
  /\ Async

\* an element fires loadedmetadata for stream s: the onloadedmetadata handler
LoadedMetadata(s) ==
  /\ s \in metaPending
  /\ metaPending' = metaPending \ {s}
  /\ playPending' = IF videoRef THEN playPending + 1 ELSE playPending
  /\ UNCHANGED <<camVars, mediaDevices, reqCount, gumPending, heldFacing,
                 openStreams, listening, srcObject, resumePending, enumPending,
                 switchEnum, restartTimers>>
  /\ Async

\* play() of onloadedmetadata resolves: its .then
PlayResolve ==
  /\ playPending > 0
  /\ playPending' = playPending - 1
  /\ isStreamReady' = TRUE
  /\ isInitializing' = FALSE
  /\ UNCHANGED <<videoRef, cameraError, isPaused, currentFacingMode,
                 availableDevices, mediaDevices, reqCount, gumPending,
                 streamVars, resumePending, enumPending, switchEnum,
                 restartTimers>>
  /\ Async

\* play() of onloadedmetadata rejects: its .catch
PlayReject ==
  /\ playPending > 0
  /\ playPending' = playPending - 1
  /\ cameraError' = ErrPlay
  /\ isInitializing' = FALSE
  /\ UNCHANGED <<videoRef, isStreamReady, isPaused, currentFacingMode,
                 availableDevices, mediaDevices, reqCount, gumPending,
                 streamVars, resumePending, enumPending, switchEnum,
                 restartTimers>>
  /\ Async

\* getAvailableDevices() after enumerateDevices() settled with n video inputs,
\* or with a rejection (n = EnumFails), which is only logged
getAvailableDevices(n) ==
  availableDevices' = IF n = EnumFails THEN availableDevices ELSE n

\* enumerateDevices() of initCamera's getAvailableDevices() settles
EnumSettle(n) ==
  /\ enumPending > 0
  /\ enumPending' = enumPending - 1
  /\ getAvailableDevices(n)
  /\ UNCHANGED <<videoRef, cameraError, isStreamReady, isInitializing, isPaused,
                 currentFacingMode, mediaDevices, reqCount, gumPending,
                 streamVars, playPending, resumePending, switchEnum,
                 restartTimers>>
  /\ Async

\* a track of the live stream s ends (the device is unplugged)
TrackEnded(s) ==
  /\ s \in openStreams \cap listening
  /\ handleTrackEnded(s)
  /\ UNCHANGED <<videoRef, isInitializing, isPaused, currentFacingMode,
                 availableDevices, mediaDevices, reqCount, gumPending,
                 playPending, resumePending, enumPending, switchEnum,
                 restartTimers>>
  /\ Async

\* a stopCamera() that sets the paused flag instead of clearing it
stopCamera_pauses ==
  /\ isInitializing' = FALSE
  /\ isStreamReady' = FALSE
  /\ isPaused' = TRUE
  /\ cleanupStream(mediaStream, openStreams, listening)

\* what stopCamera() writes
stopWrites == <<isInitializing, isStreamReady, isPaused, streamVars>>

\* stopCamera()
stopCamera ==
  /\ isInitializing' = FALSE
  /\ isStreamReady' = FALSE
  /\ isPaused' = FALSE
  /\ cleanupStream(mediaStream, openStreams, listening)

CallStopCamera ==
  /\ stopCamera
  /\ UNCHANGED <<videoRef, cameraError, currentFacingMode, availableDevices,
                 mediaDevices, reqCount, gumPending, playPending, resumePending,
                 enumPending, switchEnum, restartTimers>>
  /\ Call("stopCamera", "-")

\* restartCamera() up to its delay: stopCamera(), then setTimeout(300)
restartCamera ==
  /\ stopCamera
  /\ restartTimers' = restartTimers + 1

CallRestartCamera ==
  /\ restartCamera
  /\ UNCHANGED <<videoRef, cameraError, currentFacingMode, availableDevices,
                 mediaDevices, reqCount, gumPending, playPending, resumePending,
                 enumPending, switchEnum>>
  /\ Call("restartCamera", "-")

\* the delay of a restartCamera() ends: await initCamera()
RestartTimerFires ==
  /\ restartTimers > 0
  /\ restartTimers' = restartTimers - 1
  /\ initCamera
  /\ UNCHANGED <<videoRef, currentFacingMode, availableDevices, mediaDevices,
                 playPending, resumePending, enumPending, switchEnum>>
  /\ Async

\* a switchCamera() that restarts without flipping the facing mode
switchToggle_keepsFacing ==
  /\ currentFacingMode' = currentFacingMode
  /\ restartCamera

\* switchCamera() from the toggle on: flip the facing mode, restartCamera()
switchToggle ==
  /\ currentFacingMode' = IF currentFacingMode = "user" THEN "environment" ELSE "user"
  /\ restartCamera

\* switchCamera(): with an empty device list it first awaits
\* getAvailableDevices(), which returns at once without enumerateDevices
CallSwitchCamera ==
  /\ IF availableDevices = 0 /\ mediaDevices
       THEN /\ switchEnum' = switchEnum + 1
            /\ UNCHANGED <<currentFacingMode, stopWrites, restartTimers>>
       ELSE /\ switchToggle
            /\ UNCHANGED switchEnum
  /\ UNCHANGED <<videoRef, cameraError, availableDevices, mediaDevices, reqCount,
                 gumPending, playPending, resumePending, enumPending>>
  /\ Call("switchCamera", "-")

\* enumerateDevices() of a suspended switchCamera() settles
SwitchEnumSettle(n) ==
  /\ switchEnum > 0
  /\ switchEnum' = switchEnum - 1
  /\ getAvailableDevices(n)
  /\ switchToggle
  /\ UNCHANGED <<videoRef, cameraError, mediaDevices, reqCount, gumPending,
                 playPending, resumePending, enumPending>>
  /\ Async

\* pauseCamera()
pauseCamera ==
  isPaused' = IF videoRef /\ isStreamReady THEN TRUE ELSE isPaused

CallPauseCamera ==
  /\ pauseCamera
  /\ UNCHANGED <<videoRef, cameraError, isStreamReady, isInitializing,
                 currentFacingMode, availableDevices, mediaStream, envVars>>
  /\ Call("pauseCamera", "-")

\* resumeCamera() up to its await of play()
resumeCamera ==
  resumePending' = IF videoRef /\ isPaused THEN resumePending + 1 ELSE resumePending

\* a resumeCamera() that directly follows a pauseCamera() made when ready is
\* remembered as such, with the state before the pause
CallResumeCamera ==
  /\ resumeCamera
  /\ UNCHANGED <<camVars, mediaDevices, reqCount, gumPending, streamVars,
                 playPending, enumPending, switchEnum, restartTimers>>
  /\ calls < MaxCalls
  /\ calls' = calls + 1
  /\ hist' = IF hist.op = "pauseCamera" /\ hist.pre = "ready"
               THEN [hist EXCEPT !.op = "pause;resume"]
               ELSE [op |-> "resumeCamera", pre |-> SessionState,
                     stream |-> mediaStream, reqs |-> reqCount, ret |-> "-"]
  /\ UNCHANGED <<dispVars, promptVars, compVars>>

\* a resumeCamera() that leaves the paused flag as it is
resumeResolved_keepsPaused ==
  isPaused' = isPaused

\* resumeCamera() after its await: play() resolved
resumeResolved ==
  isPaused' = FALSE

\* play() of resumeCamera resolves
ResumeResolve ==
  /\ resumePending > 0
  /\ resumePending' = resumePending - 1
  /\ resumeResolved
  /\ UNCHANGED <<videoRef, cameraError, isStreamReady, isInitializing,
                 currentFacingMode, availableDevices, mediaDevices, reqCount,
                 gumPending, streamVars, playPending, enumPending, switchEnum,
                 restartTimers>>
  /\ calls' = calls
  /\ hist' = IF hist.op = "pause;resume"
               THEN [hist EXCEPT !.op = "pause;resume;resolved"]
               ELSE NoHist
  /\ UNCHANGED <<dispVars, promptVars, compVars>>

\* a resumeCamera() whose catch block tears the session down
resumeRejected_tearsDown ==
  /\ cameraError' = ErrResume
  /\ isStreamReady' = FALSE
  /\ isPaused' = FALSE
  /\ cleanupStream(mediaStream, openStreams, listening)

\* resumeCamera() after its await: play() rejected, the catch block
resumeRejected ==
  /\ cameraError' = ErrResume
  /\ UNCHANGED <<isStreamReady, isPaused, streamVars>>

\* play() of resumeCamera rejects
ResumeReject ==
  /\ resumePending > 0
  /\ resumePending' = resumePending - 1
  /\ resumeRejected
  /\ UNCHANGED <<videoRef, isInitializing, currentFacingMode, availableDevices,
                 mediaDevices, reqCount, gumPending, playPending, enumPending,
                 switchEnum, restartTimers>>
  /\ Async

\* captureScreenshot(): drawn is whether the canvas yields a context and the
\* draw and encode steps do not throw
captureScreenshot(drawn) ==
  IF ~videoRef \/ ~isStreamReady THEN "null"
  ELSE IF drawn THEN "frame" ELSE "null"

CallCaptureScreenshot(drawn) ==
  /\ UNCHANGED <<camVars, envVars>>
  /\ Call("captureScreenshot", captureScreenshot(drawn))

\* the consumer's template binds an element to videoRef
Mount ==
  /\ ~videoRef
  /\ videoRef' = TRUE
  /\ UNCHANGED <<cameraError, isStreamReady, isInitializing, isPaused,
                 currentFacingMode, availableDevices, mediaStream, envVars>>
  /\ Call("mount", "-")

\* the element leaves the page: videoRef.value is null, the detached element
\* keeps its binding
Unmount ==
  /\ videoRef
  /\ videoRef' = FALSE
  /\ srcObject' = NoStream
  /\ UNCHANGED <<cameraError, isStreamReady, isInitializing, isPaused,
                 currentFacingMode, availableDevices, mediaStream, mediaDevices,
                 reqCount, gumPending, heldFacing, openStreams, listening,
                 metaPending, playPending, resumePending, enumPending,
                 switchEnum, restartTimers>>
  /\ Call("unmount", "-")

\* the composable as useCamera() returns it
CameraInit ==
  /\ videoRef \in BOOLEAN
  /\ cameraError = NoError
  /\ isStreamReady = FALSE
  /\ isInitializing = FALSE
  /\ isPaused = FALSE
  /\ currentFacingMode = "user"
  /\ availableDevices = 0
  /\ mediaStream = NoStream
  /\ mediaDevices \in BOOLEAN
  /\ reqCount = 0
  /\ gumPending = {}
  /\ heldFacing = "none"
  /\ openStreams = {}
  /\ listening = {}
  /\ srcObject = NoStream
  /\ metaPending = {}
  /\ playPending = 0
  /\ resumePending = 0
  /\ enumPending = 0
  /\ switchEnum = 0
  /\ restartTimers = 0
  /\ calls = 0
  /\ hist = NoHist

\* ------------------------------------------- CameraPreview.vue, useGemini
\* dispatches (handleAnalyzeImage calls) in one run of the dispatcher model
MaxDispatch == 1
\* ticks of the clock in one run of the dispatcher model
MaxTicks == 2
\* the matching window of handleAnalysisResult, in ms
Tolerance == 1000
\* ms per tick of the clock
TickMs == Tolerance \div 2

\* values of JavaScript that are no strings of the program
Null == "<null>"
Undefined == "<undefined>"

\* the analysisPrompts table of generateSinglePrompt
analysisPrompts ==
  ("General Analysis" :> "Analisis keseluruhan gambar secara detail. Berikan deskripsi lengkap tentang apa yang terlihat dalam gambar, termasuk objek, orang, latar belakang, dan konteks visual lainnya. Jawab dalam bahasa Indonesia.") @@
  ("Emotion Detection" :> "Analisis ekspresi wajah dan emosi orang-orang dalam gambar. Identifikasi emosi yang terlihat (senang, sedih, marah, netral, dll) dan tingkat kepercayaan deteksi. Jawab dalam bahasa Indonesia.") @@
  ("Fatigue Analysis" :> "Analisis tanda-tanda kelelahan pada wajah. Perhatikan indikator seperti mata mengantuk, lingkaran hitam, ekspresi lelah, dan tanda fisik lainnya yang menunjukkan kelelahan. Jawab dalam bahasa Indonesia.") @@
  ("Gender Presentation" :> "Analisis presentasi gender yang terlihat pada orang-orang dalam gambar. Deskripsikan karakteristik yang terlihat tanpa membuat asumsi definitif. Jawab dalam bahasa Indonesia.") @@
  ("Person Description" :> "Beri deskripsi detail karakteristik fisik orang-orang dalam gambar, termasuk usia perkiraan, tinggi badan, bentuk wajah, dan fitur fisik lainnya yang terlihat. Jawab dalam bahasa Indonesia.") @@
  ("Accessories" :> "Identifikasi dan deskripsikan aksesori atau item yang dikenakan oleh orang-orang dalam gambar, seperti kacamata, topi, perhiasan, jam tangan, tas, atau item lainnya. Jawab dalam bahasa Indonesia.") @@
  ("Gaze Analysis" :> "Analisis arah pandangan mata dan fokus perhatian. Tentukan ke mana orang-orang dalam gambar sedang melihat atau fokus. Jawab dalam bahasa Indonesia.") @@
  ("Hair Analysis" :> "Analisis karakteristik rambut orang-orang dalam gambar, termasuk warna rambut, panjang, gaya, tekstur, dan detail lainnya yang terlihat. Jawab dalam bahasa Indonesia.") @@
  ("Crowd Analysis" :> "Analisis dinamika kelompok dan pola demografis. Hitung jumlah orang, distribusi usia dan gender, interaksi antar orang, dan pola perilaku kelompok. Jawab dalam bahasa Indonesia.")

FallbackPrompt == "Analisis gambar ini secara detail. Jawab dalam bahasa Indonesia."

\* what an object literal inherits from Object.prototype, as the strings the
\* values turn into
ObjectPrototype ==
  ("constructor" :> "function Object() { [native code] }") @@
  ("toString" :> "function toString() { [native code] }") @@
  ("valueOf" :> "function valueOf() { [native code] }") @@
  ("hasOwnProperty" :> "function hasOwnProperty() { [native code] }") @@
  ("__proto__" :> "[object Object]")

\* obj[key] for an object literal obj
PropertyGet(obj, key) ==
  IF key \in DOMAIN obj THEN obj[key]
  ELSE IF key \in DOMAIN ObjectPrototype THEN ObjectPrototype[key]
  ELSE Undefined

\* a value counts as true in a condition
Truthy(v) == v \notin {"", Null, Undefined}

\* generateSinglePrompt(analysisType)
generateSinglePrompt(analysisType) ==
  LET prompt == PropertyGet(analysisPrompts, analysisType)
  IN  IF Truthy(prompt) THEN prompt ELSE FallbackPrompt

\* the labels offered for selection, of the nine of pages/index.vue
Categories == {"Emotion Detection", "Accessories"}

\* what the stubbed service does with the request of a category
ServiceOutcomes == {"text", "empty", "fails"}
ServiceText(type) ==
  IF type = "Emotion Detection" THEN "happy, relaxed" ELSE "glasses"
ServiceError(type) ==
  IF type = "Emotion Detection" THEN "network error (emotion)"
  ELSE "network error (accessories)"

ErrNoKey == "Gemini API key tidak ditemukan. Silakan set NUXT_PUBLIC_GEMINI_API_KEY di .env file atau berikan sebagai parameter."
MsgNoSelection == "Silakan pilih minimal satu jenis analisa yang ingin dilakukan."
MsgNoFrame == "Gagal mengambil gambar untuk dianalisis"

\* signals of the component
SigError(msg) ==
  [sig |-> "analysis-error", type |-> "-", text |-> msg, error |-> Undefined,
   on |-> FALSE, timestamp |-> 0]
SigProgress(type, on) ==
  [sig |-> "analysis-progress", type |-> type, text |-> "-", error |-> Undefined,
   on |-> on, timestamp |-> 0]
SigResult(type, text, error) ==
  [sig |-> "analysis-result", type |-> type, text |-> text, error |-> error,
   on |-> FALSE, timestamp |-> now]

\* ------------------------------------------------------- pages/index.vue
Abs(x) == IF x < 0 THEN -x ELSE x

\* indices of the entries of results that handleAnalysisResult matches to result
Matching(results, result) ==
  {i \in 1..Len(results) :
     /\ results[i].analysisType = result.analysisType
     /\ Abs(results[i].timestamp - result.timestamp) < Tolerance}

Min(S) == CHOOSE x \in S : \A y \in S : x <= y

\* handleAnalysisResult(result) on the page state pg
handleAnalysisResult(pg, result) ==
  LET found == Matching(pg.results, result)
  IN  [pg EXCEPT
         !.results = IF found # {}
                       THEN [pg.results EXCEPT ![Min(found)] = result]
                       ELSE Append(pg.results, result),
         !.error = Null]

\* indices of the placeholders of a category still being processed
Processing(results, type) ==
  {i \in 1..Len(results) :
     results[i].analysisType = type /\ results[i].isProcessing}

\* handleAnalysisProgress(analysisType, isProcessing) on the page state pg
handleAnalysisProgress(pg, type, on) ==
  LET found == Processing(pg.results, type)
  IN  IF on
        THEN [pg EXCEPT
                !.processing = pg.processing \cup {type},
                !.results = IF found = {}
                              THEN Append(pg.results,
                                     [analysisType |-> type, text |-> "",
                                      timestamp |-> now, error |-> Undefined,
                                      isProcessing |-> TRUE])
                              ELSE pg.results]
        ELSE [pg EXCEPT
                !.processing = pg.processing \ {type},
                !.results = IF found # {}
                              THEN [pg.results EXCEPT
                                      ![Min(found)].isProcessing = FALSE]
                              ELSE pg.results]

\* handleAnalysisError(error) on the page state pg
handleAnalysisError(pg, msg) ==
  [pg EXCEPT !.error = msg]

\* the page's handler of one signal
Handle(pg, s) ==
  IF s.sig = "analysis-error" THEN handleAnalysisError(pg, s.text)
  ELSE IF s.sig = "analysis-progress" THEN handleAnalysisProgress(pg, s.type, s.on)
  ELSE handleAnalysisResult(pg,
         [analysisType |-> s.type, text |-> s.text, timestamp |-> s.timestamp,
          error |-> s.error, isProcessing |-> FALSE])

RECURSIVE Deliver(_, _)
Deliver(pg, signals) ==
  IF signals = <<>> THEN pg
  ELSE Deliver(Handle(pg, Head(signals)), Tail(signals))

\* emit the signals in order: each runs its handler of the page at once
Emit(signals) ==
  LET pg == Deliver([results |-> analysisResults, error |-> analysisError,
                     processing |-> processingItems], signals)
  IN  /\ emitted' = emitted \o signals
      /\ analysisResults' = pg.results
      /\ analysisError' = pg.error
      /\ processingItems' = pg.processing

\* --------------------------------------------------- handleAnalyzeImage
\* what analyzeImage() returns when generateContent settled as outcome, or
\* when getApiKey() threw before any request
analyzeImageReturns(type, outcome) ==
  IF outcome = "text" THEN ServiceText(type)
  ELSE IF outcome = "empty" THEN ""
  ELSE Null

\* a closure that reports nothing when analyzeImage() returned no text
closureSignals_dropsError(type, result, err) ==
  (IF Truthy(result) THEN <<SigResult(type, result, Undefined)>> ELSE <<>>)
  \o <<SigProgress(type, FALSE)>>

\* a closure that emits its progress-finished signal before its result
closureSignals_finishesFirst(type, result, err) ==
  <<SigProgress(type, FALSE)>>
  \o (IF Truthy(result)
        THEN <<SigResult(type, result, Undefined)>>
        ELSE IF Truthy(err)
          THEN <<SigResult(type, "", err)>>
          ELSE <<>>)

\* what a closure emits once analyzeImage() has returned result to it, with
\* err the error.value of useGemini at that moment
closureSignals(type, result, err) ==
  (IF Truthy(result)
     THEN <<SigResult(type, result, Undefined)>>
     ELSE IF Truthy(err)
       THEN <<SigResult(type, "", err)>>
       ELSE <<>>)
  \o <<SigProgress(type, FALSE)>>

\* the closure of category i of n after the synchronous part of the batch: with
\* a key its request is in flight; without one analyzeImage() has returned
\* null already and the closure continues right after the synchronous part.
\* startedAt is the place of its progress-started signal among the signals
\* emitted, sentAt the number of signals emitted when its request was sent
\* (0: no request), reportedAt the number emitted when it continued.
NewClosure(type, i, n) ==
  [type |-> type, prompt |-> generateSinglePrompt(type),
   st |-> IF apiKey THEN "pending" ELSE "fulfilled",
   outcome |-> IF apiKey THEN "-" ELSE "no key",
   reported |-> IF apiKey THEN <<>> ELSE closureSignals(type, Null, ErrNoKey),
   startedAt |-> Len(emitted) + i,
   sentAt |-> IF apiKey THEN Len(emitted) + i ELSE 0,
   reportedAt |-> IF apiKey THEN 0
                  ELSE Len(emitted) + n
                       + (i - 1) * Len(closureSignals(type, Null, ErrNoKey))]

RECURSIVE Flatten(_)
Flatten(ss) == IF ss = <<>> THEN <<>> ELSE Head(ss) \o Flatten(Tail(ss))

\* signals of the synchronous part of a batch and of the continuations
\* that are ready to run right after it (those of the closures whose
\* analyzeImage() returned without sending a request)
fanOutSignals(items) ==
  [i \in 1..Len(items) |-> SigProgress(items[i], TRUE)]
  \o (IF apiKey THEN <<>>
      ELSE Flatten([i \in 1..Len(items) |->
                      closureSignals(items[i], Null, ErrNoKey)]))

\* a handleAnalyzeImage() call is remembered with what it started from
Dispatched(kind) ==
  /\ dcalls' = dcalls + 1
  /\ dhist' = [kind |-> kind, ready |-> isStreamReady /\ ~isPaused,
               selected |-> Len(selectedAnalysisItems),
               emitted |-> Len(emitted), sent |-> sent]

\* a validation that lets every selection through
selectionEmpty_never == FALSE

\* the validation of handleAnalyzeImage(): nothing is selected
selectionEmpty == Len(selectedAnalysisItems) = 0

\* a test that takes every capture for a frame
captureFailed_never(dataUrl) == FALSE

\* the test of handleAnalyzeImage() on what captureScreenshot() returned
captureFailed(dataUrl) == dataUrl = "null"

\* handleAnalyzeImage() up to its return or its await of Promise.all; drawn as
\* in captureScreenshot
handleAnalyzeImage(drawn) ==
  IF ~isStreamReady \/ isPaused
    THEN /\ UNCHANGED <<geminiVars, batches, emitted, sent, pageVars>>
         /\ Dispatched("not ready")
    ELSE IF selectionEmpty
      THEN /\ Emit(<<SigError(MsgNoSelection)>>)
           /\ UNCHANGED <<geminiVars, batches, sent>>
           /\ Dispatched("no selection")
      ELSE IF captureFailed(captureScreenshot(drawn))
        THEN /\ Emit(<<SigError(MsgNoFrame)>>)
             /\ UNCHANGED <<geminiVars, batches, sent>>
             /\ Dispatched("no frame")
        ELSE /\ Emit(fanOutSignals(selectedAnalysisItems))
             /\ batches' = Append(batches,
                  [closures |-> [i \in 1..Len(selectedAnalysisItems) |->
                                   NewClosure(selectedAnalysisItems[i], i,
                                              Len(selectedAnalysisItems))],
                   status |-> "pending"])
             /\ isAnalyzing' = apiKey
             /\ geminiError' = IF apiKey THEN Null ELSE ErrNoKey
             /\ sent' = IF apiKey THEN sent + Len(selectedAnalysisItems) ELSE sent
             /\ UNCHANGED lastResult
             /\ Dispatched("fan out")

CallAnalyzeImage(drawn) ==
  /\ dcalls < MaxDispatch
  /\ handleAnalyzeImage(drawn)
  /\ UNCHANGED <<camVars, envVars, calls, hist, selectedAnalysisItems, apiKey,
                 now, promptVars, compVars>>

\* analyzeImage() after its await: generateContent settled as outcome
analyzeImageSettled(type, outcome) ==
  /\ isAnalyzing' = FALSE
  /\ IF outcome = "fails"
       THEN /\ geminiError' = ServiceError(type)
            /\ UNCHANGED lastResult
       ELSE /\ lastResult' = [text |-> analyzeImageReturns(type, outcome),
                              timestamp |-> now]
            /\ UNCHANGED geminiError

\* the service settles the request of closure i of batch b: analyzeImage()
\* returns and the closure runs to its end
ServiceSettle(b, i, outcome) ==
  /\ batches[b].closures[i].st = "pending"
  /\ analyzeImageSettled(batches[b].closures[i].type, outcome)
  /\ Emit(closureSignals(batches[b].closures[i].type,
                         analyzeImageReturns(batches[b].closures[i].type, outcome),
                         geminiError'))
  /\ batches' = [batches EXCEPT
       ![b].closures[i].st = "fulfilled",
       ![b].closures[i].outcome = outcome,
       ![b].closures[i].reportedAt = Len(emitted),
       ![b].closures[i].reported =
          closureSignals(batches[b].closures[i].type,
                         analyzeImageReturns(batches[b].closures[i].type, outcome),
                         geminiError')]
  /\ UNCHANGED <<camVars, envVars, calls, hist, selectedAnalysisItems, apiKey,
                 sent, dcalls, dhist, now, promptVars, compVars>>

\* a join that is fulfilled once one of the promises is
PromiseAll_any(closures) ==
  IF \E i \in 1..Len(closures) : closures[i].st = "rejected" THEN "rejected"
  ELSE IF \E i \in 1..Len(closures) : closures[i].st = "fulfilled" THEN "fulfilled"
  ELSE "pending"

\* Promise.all over the promises of the closures: rejected once one of them
\* is, fulfilled once all of them are
PromiseAll(closures) ==
  IF \E i \in 1..Len(closures) : closures[i].st = "rejected" THEN "rejected"
  ELSE IF \A i \in 1..Len(closures) : closures[i].st = "fulfilled" THEN "fulfilled"
  ELSE "pending"

\* await Promise.all(analysisPromises) settles: handleAnalyzeImage() completes
BatchJoin(b) ==
  /\ batches[b].status = "pending"
  /\ PromiseAll(batches[b].closures) # "pending"
  /\ batches' = [batches EXCEPT ![b].status = PromiseAll(batches[b].closures)]
  /\ UNCHANGED <<camVars, envVars, calls, hist, selectedAnalysisItems, apiKey,
                 geminiVars, emitted, sent, dcalls, dhist, pageVars, now,
                 promptVars, compVars>>

\* AnalysisGrid: handleSelectionChange(label, checked) through v-model
handleSelectionChange(label) ==
  selectedAnalysisItems' =
    IF \E i \in 1..Len(selectedAnalysisItems) : selectedAnalysisItems[i] = label
      THEN SelectSeq(selectedAnalysisItems, LAMBDA x : x # label)
      ELSE Append(selectedAnalysisItems, label)

ToggleSelection(label) ==
  /\ batches = <<>>
  /\ dcalls = 0
  /\ handleSelectionChange(label)
  /\ UNCHANGED <<camVars, envVars, calls, hist, apiKey, geminiVars, batches,
                 emitted, sent, dcalls, dhist, pageVars, now, promptVars, compVars>>

\* time passes
Tick ==
  /\ now < MaxTicks * TickMs
  /\ now' = now + TickMs
  /\ UNCHANGED <<camVars, envVars, calls, hist, selectedAnalysisItems, apiKey,
                 geminiVars, batches, emitted, sent, dcalls, dhist, pageVars,
                 promptVars, compVars>>

NoDispatch ==
  [kind |-> "-", ready |-> FALSE, selected |-> 0, emitted |-> 0, sent |-> 0]

\* the component and the page as set up
DispatcherIdle ==
  /\ isAnalyzing = FALSE
  /\ geminiError = Null
  /\ lastResult = Null
  /\ batches = <<>>
  /\ emitted = <<>>
  /\ sent = 0
  /\ dcalls = 0
  /\ dhist = NoDispatch
  /\ analysisResults = <<>>
  /\ analysisError = Null
  /\ processingItems = {}
  /\ now = 0

DispatchInit ==
  /\ selectedAnalysisItems = <<>>
  /\ DispatcherIdle

PromptIdle ==
  /\ pIn = <<>>
  /\ pOut = <<>>

\* CameraPreview.vue before its setup has run
ComponentIdle ==
  /\ lifecycle = "setup"
  /\ retryPhase = "none"
  /\ retryCount = 0
  /\ watchTimers = 0

Init ==
  /\ CameraInit
  /\ DispatchInit
  /\ apiKey = TRUE
  /\ PromptIdle
  /\ ComponentIdle

EnumResults == DeviceCounts \cup {EnumFails}

Next ==
  \/ CallInitCamera
  \/ CallStopCamera
  \/ CallRestartCamera
  \/ CallSwitchCamera
  \/ CallPauseCamera
  \/ CallResumeCamera
  \/ \E drawn \in BOOLEAN : CallCaptureScreenshot(drawn)
  \/ \E r \in gumPending : GumResolve(r)
  \/ \E r \in gumPending : GumReject(r)
  \/ \E s \in metaPending : LoadedMetadata(s)
  \/ PlayResolve
  \/ PlayReject
  \/ \E n \in EnumResults : EnumSettle(n)
  \/ \E n \in EnumResults : SwitchEnumSettle(n)
  \/ \E s \in openStreams : TrackEnded(s)
  \/ RestartTimerFires
  \/ ResumeResolve
  \/ ResumeReject
  \/ Mount
  \/ Unmount

Spec == Init /\ [][Next]_vars

\* ------------------------------------------------ the dispatcher on its own
\* the camera as it stands while the dispatcher runs: off, ready or paused
CameraOff ==
  /\ CameraInit
  /\ videoRef = TRUE
  /\ mediaDevices = TRUE

\* after initCamera() went through, and after pauseCamera() then
CameraOn(paused) ==
  /\ videoRef = TRUE /\ mediaDevices = TRUE
  /\ cameraError = NoError
  /\ isStreamReady = TRUE /\ isInitializing = FALSE /\ isPaused = paused
  /\ currentFacingMode = "user"
  /\ availableDevices = 1
  /\ mediaStream = 1 /\ heldFacing = "user"
  /\ reqCount = 1 /\ gumPending = {}
  /\ openStreams = {1} /\ listening = {1}
  /\ srcObject = 1
  /\ metaPending = {} /\ playPending = 0 /\ resumePending = 0
  /\ enumPending = 0 /\ switchEnum = 0 /\ restartTimers = 0
  /\ calls = IF paused THEN 2 ELSE 1
  /\ hist = IF paused
              THEN [op |-> "pauseCamera", pre |-> "ready", stream |-> 1,
                    reqs |-> 1, ret |-> "-"]
              ELSE NoHist

InitDispatch ==
  /\ CameraOff \/ CameraOn(FALSE) \/ CameraOn(TRUE)
  /\ DispatchInit
  /\ apiKey \in BOOLEAN
  /\ PromptIdle
  /\ lifecycle = "mounted"
  /\ retryPhase = "none"
  /\ retryCount = 0
  /\ watchTimers = 0

NextDispatch ==
  \/ \E label \in Categories : ToggleSelection(label)
  \/ \E drawn \in BOOLEAN : CallAnalyzeImage(drawn)
  \/ \E b \in 1..Len(batches) : \E i \in 1..Len(batches[b].closures) :
       \E outcome \in ServiceOutcomes : ServiceSettle(b, i, outcome)
  \/ \E b \in 1..Len(batches) : BatchJoin(b)
  \/ Tick

SpecDispatch == InitDispatch /\ [][NextDispatch]_vars

\* -------------------------------------- the dispatcher, round after round
\* handleAnalyzeImage calls in one run of the model of rounds
MaxRounds == 2

\* handleAnalyzeImage() called again and again with one selection
AnalyzeRound(drawn) ==
  /\ dcalls < MaxRounds
  /\ handleAnalyzeImage(drawn)
  /\ UNCHANGED <<camVars, envVars, calls, hist, selectedAnalysisItems, apiKey,
                 now, promptVars, compVars>>

\* the camera is on and one category is selected
InitRounds ==
  /\ CameraOn(FALSE)
  /\ selectedAnalysisItems \in {<<label>> : label \in Categories}
  /\ DispatcherIdle
  /\ apiKey \in BOOLEAN
  /\ PromptIdle
  /\ lifecycle = "mounted"
  /\ retryPhase = "none"
  /\ retryCount = 0
  /\ watchTimers = 0

NextRounds ==
  \/ \E drawn \in BOOLEAN : AnalyzeRound(drawn)
  \/ \E b \in 1..Len(batches) : \E i \in 1..Len(batches[b].closures) :
       \E outcome \in ServiceOutcomes : ServiceSettle(b, i, outcome)
  \/ \E b \in 1..Len(batches) : BatchJoin(b)
  \/ Tick

SpecRounds == InitRounds /\ [][NextRounds]_vars

\* ------------------------------------------- the CameraPreview component
\* The template renders the <video ref="videoRef"> element and the buttons in
\* the v-else branch of v-if="cameraError": the element exists only while
\* cameraError is empty, and videoRef.value is null as soon as the branch is
\* left or the component is unmounted.
MAX_RETRIES == 5

\* a step of the component that is no call of a button's handler
Step(name, ret) ==
  /\ calls' = calls
  /\ hist' = [op |-> name, pre |-> SessionState, stream |-> mediaStream,
              reqs |-> reqCount, ret |-> ret]
  /\ UNCHANGED <<dispVars, promptVars>>

\* the render that follows a change of cameraError is due: it runs before any
\* other task
RenderDue == videoRef /\ cameraError # NoError

\* a continuation that runs before any other task is due
TickDue == retryPhase = "tick"

\* the callback of watch(videoRef), called with an element
watchVideoRef ==
  watchTimers' = IF ~isInitializing /\ ~isStreamReady /\ cameraError = NoError
                   THEN watchTimers + 1
                   ELSE watchTimers

\* the <video> element is rendered: videoRef.value becomes the new element and
\* the watcher runs. The element may be there before onMounted or come late,
\* the case initializeWithRetry provides for.
SurfaceAppears ==
  /\ lifecycle # "unmounted"
  /\ cameraError = NoError
  /\ ~videoRef
  /\ videoRef' = TRUE
  /\ watchVideoRef
  /\ UNCHANGED <<cameraError, isStreamReady, isInitializing, isPaused,
                 currentFacingMode, availableDevices, mediaStream, envVars,
                 lifecycle, retryPhase, retryCount>>
  /\ Step("render", "element")

\* cameraError was set: the template leaves the v-else branch, the element is
\* removed and videoRef.value becomes null (the watcher ignores null)
SurfaceRemoved ==
  /\ RenderDue
  /\ videoRef' = FALSE
  /\ srcObject' = NoStream
  /\ UNCHANGED <<cameraError, isStreamReady, isInitializing, isPaused,
                 currentFacingMode, availableDevices, mediaStream, mediaDevices,
                 reqCount, gumPending, heldFacing, openStreams, listening,
                 metaPending, playPending, resumePending, enumPending,
                 switchEnum, restartTimers, compVars>>
  /\ Step("render", "no element")

\* a bound checked one attempt late
retriesExhausted_late(n) == n > MAX_RETRIES

\* retryCount >= maxRetries
retriesExhausted(n) == n >= MAX_RETRIES

\* initializeWithRetry(n) up to its return or its await of nextTick()
initializeWithRetry(n) ==
  /\ retryCount' = n
  /\ IF videoRef
       THEN /\ initCamera
            /\ retryPhase' = "done"
       ELSE /\ UNCHANGED initWrites
            /\ retryPhase' = IF retriesExhausted(n) THEN "abandoned" ELSE "tick"

\* what initializeWithRetry(n) did
retryBranch(n) ==
  IF videoRef THEN "initCamera"
  ELSE IF retriesExhausted(n) THEN "abandoned" ELSE "nextTick"

\* onMounted: the nextTick callback
MountedHook ==
  /\ lifecycle = "setup"
  /\ lifecycle' = "mounted"
  /\ IF videoRef
       THEN /\ initCamera
            /\ UNCHANGED <<retryPhase, retryCount>>
       ELSE initializeWithRetry(0)
  /\ UNCHANGED <<videoRef, currentFacingMode, availableDevices, mediaDevices,
                 playPending, resumePending, enumPending, switchEnum,
                 restartTimers, watchTimers>>
  /\ Step("onMounted", IF videoRef THEN "initCamera" ELSE retryBranch(0))

\* initializeWithRetry after its await of nextTick()
RetryAfterTick ==
  /\ TickDue
  /\ IF videoRef
       THEN /\ initCamera
            /\ retryPhase' = "done"
       ELSE /\ UNCHANGED initWrites
            /\ retryPhase' = "timer"
  /\ UNCHANGED <<videoRef, currentFacingMode, availableDevices, mediaDevices,
                 playPending, resumePending, enumPending, switchEnum,
                 restartTimers, lifecycle, retryCount, watchTimers>>
  /\ Step("initializeWithRetry", IF videoRef THEN "initCamera" ELSE "setTimeout")

\* the retry timer fires: initializeWithRetry(retryCount + 1)
RetryTimerFires ==
  /\ retryPhase = "timer"
  /\ initializeWithRetry(retryCount + 1)
  /\ UNCHANGED <<videoRef, currentFacingMode, availableDevices, mediaDevices,
                 playPending, resumePending, enumPending, switchEnum,
                 restartTimers, lifecycle, watchTimers>>
  /\ Step("initializeWithRetry", retryBranch(retryCount + 1))

\* a timer of watch(videoRef) fires: initCamera()
WatchTimerFires ==
  /\ watchTimers > 0
  /\ watchTimers' = watchTimers - 1
  /\ initCamera
  /\ UNCHANGED <<videoRef, currentFacingMode, availableDevices, mediaDevices,
                 playPending, resumePending, enumPending, switchEnum,
                 restartTimers, lifecycle, retryPhase, retryCount>>
  /\ Step("watch", "initCamera")

\* the buttons are rendered with the element
ButtonsShown == lifecycle = "mounted" /\ videoRef

\* handleToggleCamera(), its button being disabled while initializing
handleToggleCamera ==
  /\ ButtonsShown
  /\ ~isInitializing
  /\ IF isStreamReady
       THEN /\ stopCamera
            /\ UNCHANGED <<cameraError, reqCount, gumPending>>
       ELSE initCamera
  /\ UNCHANGED <<videoRef, currentFacingMode, availableDevices, mediaDevices,
                 playPending, resumePending, enumPending, switchEnum,
                 restartTimers>>
  /\ Call("handleToggleCamera", IF isStreamReady THEN "stopCamera" ELSE "initCamera")

\* handleTogglePause(), its button shown when the stream is ready
handleTogglePause ==
  /\ ButtonsShown
  /\ isStreamReady
  /\ ~isInitializing
  /\ IF isPaused
       THEN /\ resumeCamera
            /\ UNCHANGED isPaused
       ELSE /\ pauseCamera
            /\ UNCHANGED resumePending
  /\ UNCHANGED <<videoRef, cameraError, isStreamReady, isInitializing,
                 currentFacingMode, availableDevices, mediaStream, mediaDevices,
                 reqCount, gumPending, heldFacing, openStreams, listening,
                 srcObject, metaPending, playPending, enumPending, switchEnum,
                 restartTimers>>
  /\ Call("handleTogglePause", IF isPaused THEN "resumeCamera" ELSE "pauseCamera")

\* the switch button
ClickSwitchCamera ==
  /\ ButtonsShown
  /\ isStreamReady
  /\ availableDevices > 1
  /\ ~isInitializing
  /\ ~isPaused
  /\ CallSwitchCamera

\* the restart button
ClickRestartCamera ==
  /\ ButtonsShown
  /\ isStreamReady
  /\ ~isInitializing
  /\ ~isPaused
  /\ CallRestartCamera

\* a teardown that leaves the camera as it is
onBeforeUnmount_keepsStream ==
  UNCHANGED stopWrites

\* onBeforeUnmount: stopCamera(); the element then leaves with the component
onBeforeUnmount ==
  stopCamera

BeforeUnmount ==
  /\ lifecycle = "mounted"
  /\ lifecycle' = "unmounted"
  /\ onBeforeUnmount
  /\ videoRef' = FALSE
  /\ UNCHANGED <<cameraError, currentFacingMode, availableDevices, mediaDevices,
                 reqCount, gumPending, playPending, resumePending, enumPending,
                 switchEnum, restartTimers, retryPhase, retryCount, watchTimers>>
  /\ Step("onBeforeUnmount", "stopCamera")

InitComponent ==
  /\ CameraInit
  /\ videoRef = FALSE
  /\ DispatchInit
  /\ apiKey = TRUE
  /\ PromptIdle
  /\ ComponentIdle

\* no render and no continuation is due: the next task may run
Quiet == ~RenderDue /\ ~TickDue

NextComponent ==
  \/ SurfaceRemoved
  \/ ~RenderDue /\ SurfaceAppears
  \/ ~RenderDue /\ RetryAfterTick
  \/ Quiet /\ MountedHook
  \/ Quiet /\ RetryTimerFires
  \/ Quiet /\ WatchTimerFires
  \/ Quiet /\ handleToggleCamera
  \/ Quiet /\ handleTogglePause
  \/ Quiet /\ ClickSwitchCamera
  \/ Quiet /\ ClickRestartCamera
  \/ Quiet /\ BeforeUnmount
  \/ Quiet /\ \E r \in gumPending : GumResolve(r)
  \/ Quiet /\ \E r \in gumPending : GumReject(r)
  \/ Quiet /\ \E s \in metaPending : LoadedMetadata(s)
  \/ Quiet /\ PlayResolve
  \/ Quiet /\ PlayReject
  \/ Quiet /\ \E n \in EnumResults : EnumSettle(n)
  \/ Quiet /\ \E s \in openStreams : TrackEnded(s)
  \/ Quiet /\ RestartTimerFires
  \/ Quiet /\ ResumeResolve
  \/ Quiet /\ ResumeReject

SpecComponent == InitComponent /\ [][NextComponent]_vars

\* ------------------------------------------------ prompt derivation alone
\* labels handed to generateSinglePrompt: the nine of the table, labels that
\* are no category, and names every object inherits
Labels ==
  DOMAIN analysisPrompts \cup
  {"Object Detection", "emotion detection", "", "constructor", "toString",
   "__proto__"}

\* calls of generateSinglePrompt in one run
MaxDerive == 2

Derive(label) ==
  /\ Len(pIn) < MaxDerive
  /\ pIn' = Append(pIn, label)
  /\ pOut' = Append(pOut, generateSinglePrompt(label))
  /\ UNCHANGED <<camVars, envVars, calls, hist, dispVars, compVars>>

InitPrompt ==
  /\ CameraOff
  /\ DispatchInit
  /\ apiKey = TRUE
  /\ PromptIdle
  /\ ComponentIdle

NextPrompt == \E label \in Labels : Derive(label)

SpecPrompt == InitPrompt /\ [][NextPrompt]_vars

\* ================================================================ claims

\* the session is idle: no stream, no flag set, no error
Idle ==
  /\ mediaStream = NoStream
  /\ ~isInitializing
  /\ ~isStreamReady
  /\ ~isPaused
  /\ cameraError = NoError

\* cameraError values set by a failed acquisition, a failed start of playback
\* or an ended track
AcquisitionErrors == {ErrUnsupported, ErrDenied, ErrNoVideo, ErrPlay, ErrTrackEnded}

\* C1: at most one stream obtained from getUserMedia is open at any instant,
\* counting the streams the session no longer references.
C1_AtMostOneOpenStream ==
  Cardinality(openStreams) <= 1

\* C2: whenever cameraError holds the message of a failed acquisition, of a
\* failed start of playback or of an ended track, no stream is held or open.
C2_ErrorReleasesStream ==
  cameraError \in AcquisitionErrors =>
    mediaStream = NoStream /\ openStreams = {}

\* C3: right after stopCamera(), from whatever state, the session is idle: no
\* stream held, no 'ended' listener attached, the three flags false and
\* cameraError null.
C3_StopLeavesIdle ==
  hist.op = "stopCamera" =>
    /\ mediaStream = NoStream
    /\ listening = {}
    /\ ~isInitializing
    /\ ~isStreamReady
    /\ ~isPaused
    /\ cameraError = NoError

\* C4: stopCamera() called on an idle session changes no variable of the
\* session or of the browser, at the first such call and at every repetition.
C4_StopWhenIdleIsNoop ==
  [][(Idle /\ CallStopCamera) => UNCHANGED <<camVars, envVars>>]_vars

\* C4 witness: a stopCamera() made on an idle session right after another one
C4_Witness ==
  /\ hist.op = "stopCamera"
  /\ hist.pre = "idle"
  /\ hist.stream = NoStream
  /\ calls >= 2
  /\ reqCount = 0
  /\ Idle

\* C5: when pauseCamera() is called in the ready state, resumeCamera() follows
\* at once and its play() resolves, the session is ready again (isStreamReady,
\* not paused, no error), holds the stream it held before the pause, and no
\* getUserMedia request was issued meanwhile.
C5_PauseResumeKeepsStream ==
  hist.op = "pause;resume;resolved" =>
    /\ isStreamReady
    /\ ~isPaused
    /\ cameraError = NoError
    /\ mediaStream = hist.stream
    /\ reqCount = hist.reqs

\* C5 witness: such a pause and resume, made on a held and open stream
C5_Witness ==
  /\ hist.op = "pause;resume;resolved"
  /\ hist.stream # NoStream
  /\ mediaStream \in openStreams
  /\ SessionState = "ready"

\* C6: captureScreenshot() called in a state other than ready (idle,
\* initializing, paused, error) returns null.
C6_CaptureOnlyWhenReady ==
  (hist.op = "captureScreenshot" /\ hist.pre # "ready") => hist.ret = "null"

\* the signals emitted since the last handleAnalyzeImage() call began
SinceDispatch == SubSeq(emitted, dhist.emitted + 1, Len(emitted))

\* C7 as stated: every handleAnalyzeImage() call with nothing selected sends
\* no request and emits exactly one 'analysis-error' and nothing else.
C7_ZeroSelectionOneError ==
  (dhist.kind # "-" /\ dhist.selected = 0) =>
    /\ sent = dhist.sent
    /\ Len(SinceDispatch) = 1
    /\ SinceDispatch[1].sig = "analysis-error"

\* C7, amended: a handleAnalyzeImage() call with nothing selected never sends a
\* request and never emits a progress or result signal; it emits exactly one
\* 'analysis-error', the validation message, when the stream is ready and not
\* paused, and nothing at all otherwise.
C7_ZeroSelectionRefused ==
  (dhist.kind # "-" /\ dhist.selected = 0) =>
    /\ sent = dhist.sent
    /\ batches = <<>>
    /\ SinceDispatch = IF dhist.ready THEN <<SigError(MsgNoSelection)>> ELSE <<>>

C7_Witness ==
  /\ dhist.kind = "no selection"
  /\ dhist.selected = 0
  /\ dhist.ready
  /\ emitted = <<SigError(MsgNoSelection)>>
  /\ analysisError = MsgNoSelection
  /\ sent = 0

\* the result signals among signals
Results(signals) == SelectSeq(signals, LAMBDA s : s.sig = "analysis-result")

\* C8: what a category reports depends on the outcome of its own request
\* only: a category whose request failed reports one result with an error
\* message; a category whose request succeeded reports no error, and as its
\* text exactly the text returned for it.
C8_FailureIsolation ==
  \A b \in 1..Len(batches) : \A i \in 1..Len(batches[b].closures) :
    LET c == batches[b].closures[i]
        r == Results(c.reported)
        returned == analyzeImageReturns(c.type, c.outcome)
    IN  /\ c.outcome = "fails" =>
             Len(r) = 1 /\ Truthy(r[1].error)
        /\ c.outcome \in {"text", "empty"} =>
             /\ \A k \in 1..Len(r) : r[k].error = Undefined /\ r[k].text = returned
             /\ Truthy(returned) => Len(r) = 1

\* C9: handleAnalyzeImage() completes only after the request of every
\* category of the batch has settled, and its promise is never rejected.
C9_BatchJoinsAfterAll ==
  \A b \in 1..Len(batches) :
    /\ batches[b].status # "rejected"
    /\ batches[b].status = "fulfilled" =>
         \A i \in 1..Len(batches[b].closures) :
           batches[b].closures[i].outcome # "-"

C9_Witness ==
  \E b \in 1..Len(batches) :
    /\ batches[b].status = "fulfilled"
    /\ Len(batches[b].closures) = 2
    /\ batches[b].closures[1].outcome = "fails"
    /\ batches[b].closures[2].outcome = "text"

\* the prompt the table and the fallback prescribe for a label
TablePrompt(label) ==
  IF label \in DOMAIN analysisPrompts THEN analysisPrompts[label]
  ELSE FallbackPrompt

\* C10: generateSinglePrompt gives the same prompt for the same label, its
\* own table entry for each of the nine labels, and the fallback prompt for
\* every other label.
C10_PromptDerivation ==
  /\ \A j, k \in 1..Len(pIn) : pIn[j] = pIn[k] => pOut[j] = pOut[k]
  /\ \A k \in 1..Len(pIn) : pOut[k] = TablePrompt(pIn[k])

\* C11: initCamera() called while the session is initializing or holds a
\* stream issues no getUserMedia request and changes no variable of the
\* session or of the browser.
C11_InitWhenActiveIsNoop ==
  [][((isInitializing \/ mediaStream # NoStream) /\ CallInitCamera)
       => UNCHANGED <<camVars, envVars>>]_vars

\* C11 witness: an initCamera() made while a stream was held and open
C11_Witness ==
  /\ hist.op = "initCamera"
  /\ hist.stream # NoStream
  /\ mediaStream = hist.stream
  /\ mediaStream \in openStreams
  /\ reqCount = hist.reqs

\* the session after a failed acquisition whose request was r (NoStream when
\* no request was made)
FailedAcquisition(id) ==
  /\ cameraError' # NoError
  /\ cameraError' # ""
  /\ ~isInitializing'
  /\ ~isStreamReady'
  /\ id \notin openStreams'

\* C12: when an acquisition fails (camera unsupported, getUserMedia rejected,
\* or the element gone once the stream was obtained) the session is in error
\* with a non-empty message, isInitializing and isStreamReady are false, and
\* the stream obtained by that attempt is released.
C12_FailedAcquisitionEndsInError ==
  [][/\ (CallInitCamera /\ ~isInitializing /\ mediaStream = NoStream
          /\ videoRef /\ ~isCameraSupported)
          => FailedAcquisition(NoStream)
     /\ \A r \in gumPending :
          (GumReject(r) \/ (GumResolve(r) /\ ~videoRef))
            => FailedAcquisition(r.id)]_vars

\* C13: when a track of the held stream ends, whatever the state, cameraError
\* becomes 'Kamera tidak lagi tersedia.', isStreamReady becomes false, and
\* the stream is released and no longer bound to the element.
C13_TrackEndedReleases ==
  [][(mediaStream # NoStream /\ TrackEnded(mediaStream)) =>
       /\ cameraError' = ErrTrackEnded
       /\ ~isStreamReady'
       /\ mediaStream' = NoStream
       /\ mediaStream \notin openStreams'
       /\ mediaStream \notin listening'
       /\ srcObject' = NoStream]_vars

\* C13 witness: the track of a paused session has ended
C13_Witness ==
  /\ cameraError = ErrTrackEnded
  /\ isPaused
  /\ ~isStreamReady
  /\ mediaStream = NoStream
  /\ openStreams = {}
  /\ reqCount = 1

\* C19: at most one getUserMedia request is unsettled at any instant.
C19_OneRequestInFlight ==
  Cardinality(gumPending) <= 1

\* initCamera() is called by the component
ComponentCallsInitCamera ==
  \/ WatchTimerFires
  \/ RestartTimerFires
  \/ handleToggleCamera /\ ~isStreamReady
  \/ (MountedHook \/ RetryAfterTick \/ RetryTimerFires) /\ videoRef

\* C14: the error state is left by a fresh acquisition: an initCamera() call
\* that the mounted component makes in an error state, getUserMedia being
\* available, starts a new getUserMedia request.
C14_ErrorRecoverable ==
  [][(/\ lifecycle = "mounted"
      /\ cameraError # NoError
      /\ isCameraSupported
      /\ ComponentCallsInitCamera)
       => reqCount' = reqCount + 1]_vars

\* in the component an error is never left: no step clears cameraError
ErrorIsFinal ==
  [][cameraError # NoError => cameraError' # NoError]_vars

\* C15: initializeWithRetry makes at most MAX_RETRIES retries; once it has
\* called initCamera() or given up it schedules nothing more; it gives up only
\* at retry MAX_RETRIES, changing nothing of the session or of the browser;
\* and an attempt that finds the element calls initCamera() (a request is
\* issued unless the guard of initCamera holds it back) and ends the retries.
C15_RetryIsBounded ==
  [][/\ retryCount' <= MAX_RETRIES
     /\ retryPhase \in {"done", "abandoned"} => UNCHANGED <<retryPhase, retryCount>>
     /\ (retryPhase' = "abandoned" /\ retryPhase # "abandoned") =>
          /\ retryCount' = MAX_RETRIES
          /\ UNCHANGED <<camVars, envVars>>
     /\ ((RetryAfterTick \/ RetryTimerFires) /\ videoRef) =>
          /\ retryPhase' = "done"
          /\ hist'.ret = "initCamera"
          /\ (~isInitializing /\ mediaStream = NoStream /\ isCameraSupported)
               => reqCount' = reqCount + 1]_vars

\* C15 witness: the element never appeared and the retries were given up
C15_Witness ==
  /\ retryPhase = "abandoned"
  /\ retryCount = MAX_RETRIES
  /\ hist.ret = "abandoned"
  /\ ~videoRef
  /\ watchTimers = 0
  /\ reqCount = 0
  /\ cameraError = NoError
  /\ openStreams = {}

\* C20: once the component is unmounted no stream is held and no stream is
\* open, whatever was pending at the teardown and completes after it.
C20_NoStreamAfterTeardown ==
  lifecycle = "unmounted" => mediaStream = NoStream /\ openStreams = {}

\* C20 witness: the only getUserMedia request was pending at the teardown
\* and has resolved after it
C20_Witness ==
  /\ lifecycle = "unmounted"
  /\ cameraError = ErrNoVideo
  /\ reqCount = 1
  /\ calls = 0
  /\ gumPending = {}
  /\ openStreams = {}

\* C16: a handleAnalyzeImage() call made with the stream ready, at least one
\* category selected and captureScreenshot() returning null emits exactly one
\* 'analysis-error' and nothing else, sends no request and starts no batch.
C16_CaptureFailureOneError ==
  [][\A drawn \in BOOLEAN :
       (/\ CallAnalyzeImage(drawn)
        /\ isStreamReady /\ ~isPaused
        /\ Len(selectedAnalysisItems) > 0
        /\ captureScreenshot(drawn) = "null")
         => /\ emitted' = Append(emitted, SigError(MsgNoFrame))
            /\ analysisError' = MsgNoFrame
            /\ sent' = sent
            /\ batches' = batches
            /\ analysisResults' = analysisResults]_vars

\* C16 witness: such a call, with two categories selected
C16_Witness ==
  /\ dhist.ready
  /\ dhist.selected = 2
  /\ dhist.kind = "no frame"
  /\ SinceDispatch = <<SigError(MsgNoFrame)>>
  /\ analysisError = MsgNoFrame
  /\ sent = 0

\* the entries of the page for a category
EntriesOf(type) ==
  SelectSeq(analysisResults, LAMBDA e : e.analysisType = type)

\* C17: without an API key no request is ever sent; analyzeImage() returns
\* null and leaves the missing-key message in error.value; every category of
\* a batch reports one result carrying that message, and the page shows the
\* category with that message.
C17_NoKeyNoRequest ==
  ~apiKey =>
    /\ sent = 0
    /\ batches # <<>> => geminiError = ErrNoKey /\ ~isAnalyzing
    /\ \A b \in 1..Len(batches) : \A i \in 1..Len(batches[b].closures) :
         LET c == batches[b].closures[i]
             r == Results(c.reported)
         IN  /\ c.outcome = "no key"
             /\ Len(r) = 1
             /\ r[1].type = c.type
             /\ r[1].text = ""
             /\ r[1].error = ErrNoKey
             /\ \E k \in 1..Len(EntriesOf(c.type)) :
                  EntriesOf(c.type)[k].error = ErrNoKey

\* C17 witness: a batch of two categories dispatched without a key
C17_Witness ==
  /\ ~apiKey
  /\ Len(batches) = 1
  /\ Len(batches[1].closures) = 2
  /\ batches[1].status = "fulfilled"
  /\ Len(analysisResults) = 2
  /\ \A k \in 1..2 : analysisResults[k].error = ErrNoKey
  /\ sent = 0

\* C18: handleAnalysisResult replaces an entry only if it is a pending
\* placeholder of the category of the result, within the tolerance; an entry
\* that is no longer pending is never modified by a later signal.
C18_CompletedNeverOverwritten ==
  [][\A k \in 1..Len(analysisResults) :
       ~analysisResults[k].isProcessing =>
         /\ k <= Len(analysisResults')
         /\ analysisResults'[k] = analysisResults[k]]_vars

\* C21: when the play() of a resumeCamera() rejects while the session is paused
\* and holds a stream, cameraError becomes the resume error and nothing is torn
\* down: the stream stays held, open and bound to the surface, and
\* isStreamReady and isPaused keep their values.
C21_ResumeFailureKeepsSession ==
  [][(ResumeReject /\ isPaused /\ mediaStream # NoStream)
       => /\ cameraError' = ErrResume
          /\ mediaStream' = mediaStream
          /\ (mediaStream \in openStreams => mediaStream' \in openStreams')
          /\ srcObject' = srcObject
          /\ isStreamReady' = isStreamReady
          /\ isPaused' = isPaused]_vars

\* a paused session that still holds its open stream after a failed resume
C21_Witness ==
  /\ cameraError = ErrResume
  /\ isPaused /\ isStreamReady
  /\ mediaStream # NoStream /\ mediaStream \in openStreams
  /\ srcObject = mediaStream
  /\ resumePending = 0

\* C22: every closure of a batch whose request has settled (or that found no
\* key) has emitted exactly one result signal for its category: either without
\* an error and with the text that analyzeImage() returned, or with a
\* non-empty error message; this for every outcome of the service, an empty
\* text included.
C22_EverySettledCategoryReports ==
  \A b \in 1..Len(batches) : \A i \in 1..Len(batches[b].closures) :
    LET c == batches[b].closures[i]
        r == Results(c.reported)
    IN  c.st = "fulfilled" =>
          /\ Len(r) = 1
          /\ r[1].type = c.type
          /\ \/ /\ r[1].error = Undefined
                /\ c.outcome \in {"text", "empty"}
                /\ r[1].text = analyzeImageReturns(c.type, c.outcome)
             \/ /\ Truthy(r[1].error)
                /\ c.outcome \in {"fails", "no key"}

\* the closures of all batches
AllClosures ==
  UNION {{<<b, i>> : i \in 1..Len(batches[b].closures)} : b \in 1..Len(batches)}

\* how many progress signals with the given flag were emitted
ProgressCount(on) ==
  Len(SelectSeq(emitted, LAMBDA s : s.sig = "analysis-progress" /\ s.on = on))

\* C23: every category of a batch gets exactly one progress-started and, once
\* its closure has run to its end, exactly one progress-finished signal; the
\* started signal is emitted before the request is sent and before anything
\* the closure reports; what the closure reports are the result signals of its
\* category, if any, followed by the finished signal as the last one.
C23_SignalOrderPerCategory ==
  /\ ProgressCount(TRUE) = Cardinality(AllClosures)
  /\ ProgressCount(FALSE) =
       Cardinality({bi \in AllClosures :
                      batches[bi[1]].closures[bi[2]].st = "fulfilled"})
  /\ \A bi \in AllClosures : \A bj \in AllClosures :
       bi # bj => batches[bi[1]].closures[bi[2]].startedAt
                    # batches[bj[1]].closures[bj[2]].startedAt
  /\ \A bi \in AllClosures :
       LET c == batches[bi[1]].closures[bi[2]]
           n == Len(c.reported)
       IN  /\ c.startedAt \in 1..Len(emitted)
           /\ emitted[c.startedAt] = SigProgress(c.type, TRUE)
           /\ c.outcome # "no key" => c.startedAt <= c.sentAt
           /\ c.st = "pending" => n = 0
           /\ c.st = "fulfilled" =>
                /\ c.startedAt <= c.reportedAt
                /\ c.sentAt <= c.reportedAt
                /\ c.reportedAt + n <= Len(emitted)
                /\ SubSeq(emitted, c.reportedAt + 1, c.reportedAt + n) = c.reported
                /\ n >= 1
                /\ c.reported[n] = SigProgress(c.type, FALSE)
                /\ \A k \in 1..(n - 1) :
                     /\ c.reported[k].sig = "analysis-result"
                     /\ c.reported[k].type = c.type

\* both categories of a batch reported a result, the second before the first
C23_Witness ==
  /\ Len(batches) = 1
  /\ Len(batches[1].closures) = 2
  /\ \A i \in 1..2 : /\ batches[1].closures[i].st = "fulfilled"
                     /\ Len(batches[1].closures[i].reported) = 2
  /\ batches[1].closures[2].reportedAt < batches[1].closures[1].reportedAt
  /\ Len(emitted) = 6

\* the other facing mode
Flipped(f) == IF f = "user" THEN "environment" ELSE "user"

C25_ReadyImpliesOpenStream ==
  isStreamReady =>
    /\ mediaStream # NoStream
    /\ mediaStream \in openStreams
    /\ srcObject = mediaStream

\* C26: in a session that stopCamera() has just stopped, with no restart or
\* switch of an earlier call under way, a step other than a call of
\* initCamera, restartCamera or switchCamera leaves the session without a
\* stream: none becomes held, none is opened, and isStreamReady stays false.
C26_StaysIdleAfterStop ==
  [][(/\ hist.op = "stopCamera"
      /\ restartTimers = 0 /\ switchEnum = 0
      /\ ~CallInitCamera /\ ~CallRestartCamera /\ ~CallSwitchCamera)
       => /\ mediaStream' = NoStream
          /\ openStreams' \subseteq openStreams
          /\ ~isStreamReady']_vars

\* the Analyze button of the template is shown and not disabled
AnalyzeEnabled ==
  /\ isStreamReady /\ ~isPaused
  /\ ~(isPaused \/ isAnalyzing \/ Len(selectedAnalysisItems) = 0)

\* C27: while the request of any closure of a batch is in flight, isAnalyzing
\* is true, and so the Analyze button is disabled.
C27_AnalyzingWhileInFlight ==
  (\E bi \in AllClosures : batches[bi[1]].closures[bi[2]].st = "pending")
    => isAnalyzing /\ ~AnalyzeEnabled

\* C28: once every closure of the first batch has run to its end, none of
\* them on an empty text, analysisResults holds exactly one entry per category
\* of the batch and nothing else, each entry with a non-empty text or an error
\* and none still marked as processing; this whatever time the requests took.
C28_OneEntryPerCategory ==
  (/\ Len(batches) = 1
   /\ \A i \in 1..Len(batches[1].closures) :
        /\ batches[1].closures[i].st = "fulfilled"
        /\ batches[1].closures[i].outcome # "empty")
    => /\ Len(analysisResults) = Len(batches[1].closures)
       /\ \A i \in 1..Len(batches[1].closures) :
            Len(EntriesOf(batches[1].closures[i].type)) = 1
       /\ \A k \in 1..Len(analysisResults) :
            /\ ~analysisResults[k].isProcessing
            /\ analysisResults[k].text # "" \/ Truthy(analysisResults[k].error)

\* C29: whenever a stream is held while no switch or restart is under way and
\* no getUserMedia request is pending, the stream held is one that was
\* requested with the current value of currentFacingMode.
C29_HeldStreamFacesCurrentMode ==
  (/\ mediaStream # NoStream
   /\ switchEnum = 0 /\ restartTimers = 0
   /\ gumPending = {})
    => heldFacing = currentFacingMode

\* ------------------------------------------------- the camera, with progress
\* What the browser has begun it finishes: every getUserMedia request settles,
\* an element with a stream bound to it reports its metadata, every play()
\* promise and every enumerateDevices() settles and every timer fires. Calls
\* may stop coming at any time.
RequestSettles == \E r \in gumPending : GumResolve(r) \/ GumReject(r)
MetadataLoads == \E s \in metaPending : LoadedMetadata(s)
PlaySettles == PlayResolve \/ PlayReject
ResumeSettles == ResumeResolve \/ ResumeReject
EnumerationSettles ==
  \E n \in EnumResults : EnumSettle(n) \/ SwitchEnumSettle(n)

SpecLive ==
  /\ Init /\ [][Next]_vars
  /\ WF_vars(RequestSettles)
  /\ WF_vars(MetadataLoads)
  /\ WF_vars(PlaySettles)
  /\ WF_vars(ResumeSettles)
  /\ WF_vars(EnumerationSettles)
  /\ WF_vars(RestartTimerFires)

\* C30: whenever isInitializing is true it is false again later, provided that
\* every request, event and timer under way settles.
C30_InitializingEventuallyCleared ==
  isInitializing ~> ~isInitializing

====
